---- MODULE Spec2Model ----
(***************************************************************************)
(* Model of the isolated execution worker of plugin-eval                   *)
(* (packages/plugin-eval/src/worker.ts): scope construction with           *)
(* permission-checked commits, the eval / callAddon invocation lifecycle,  *)
(* the addon registry and the error formatter.                             *)
(*                                                                         *)
(* The worker is one JavaScript thread.  A handler runs to completion      *)
(* until it awaits a host RPC; `cur` is the invocation that holds the      *)
(* thread (0 when the event loop is idle).  A new RPC message or a host    *)
(* reply is only delivered when the thread is idle.                        *)
(*                                                                         *)
(* Two further pieces of the repository have a specification of their own: *)
(* the cached getStatus of plugin-status (SpecStatus) and createSubscribe   *)
(* of plugin-monitor's mongo database (SpecSubscribe).                     *)
(***************************************************************************)
EXTENDS Integers, Sequences, FiniteSets, TLC

\* ---- bounds ----
MaxInv == 2          \* invocations the host issues in one run
MaxAwait == 1        \* host RPCs (send / exec) one body awaits
MaxNow == 4          \* plugin-status: clock ticks in one run
MaxCalls == 3        \* plugin-status: getStatus calls in one run
refresh == 2         \* plugin-status: config.refresh, in clock ticks
MaxProc == 3         \* plugin-monitor: createSubscribe calls in one run

Inv == 1..MaxInv
Ids == {"s1", "s2"}                 \* session ids
Fields == {"a", "b"}                \* record field names
Writables == {{"a"}}                \* allow-lists handed in by the host
Names == {"ping"}                   \* addon names a module may register
Sources == {"script", "syntaxError"}    \* a source that compiles / that does not
Values == {"undefined", "value"}    \* what a body evaluates to
Messages == {"string", "nonString"} \* argument types handed to exec

Undefined == [t |-> "undefined"]

VARIABLES
    phase,        \* "loading" until start() has exposed the WorkerAPI
    commandMap,   \* worker.ts:131, the set of registered addon names
    response,     \* worker.ts:120, response.commands (Undefined until set)
    cur,          \* invocation holding the JavaScript thread, 0 = idle
    global,       \* the sandbox's global table: key -> scope reference (0 = absent)
    call,         \* per invocation: control state, arguments and outcome
    scope,        \* per invocation: the Scope object built from its ScopeData
    hostCalls,    \* per invocation: the host RPC calls its code triggered
    host          \* how the host issues invocations: "awaiting" each outcome
                  \* before the next one, or "concurrent" (the next one is
                  \* issued while the previous one is still in flight)

\* plugin-status (index.ts)
VARIABLES
    now,          \* Date.now()
    timestamp,    \* index.ts:193, Undefined until the first computation
    cachedStatus, \* index.ts:192, the cached promise (0 = undefined)
    promises,     \* the promises _getStatus has returned, in creation order
    returned      \* what the getStatus calls made so far have returned

\* plugin-monitor (database.ts, mongo)
VARIABLES
    subscribe,    \* the documents of the 'subscribe' collection
    creating      \* per createSubscribe call: its position and its local _id

workerVars == <<phase, commandMap, response, cur, global, call, scope, hostCalls, host>>
statusVars == <<now, timestamp, cachedStatus, promises, returned>>
subscribeVars == <<subscribe, creating>>
others == <<statusVars, subscribeVars>>
vars == <<workerVars, statusVars, subscribeVars>>

\* ---- data ----
\* The invocations of an awaiting host range over every combination of the
\* inputs; those of a concurrent host, which share no record with each other,
\* range over the session id, the source and the addon name only, and their
\* bodies assign field "a" or nothing and evaluate to a value.
ScopeDatas(h) ==
    IF h = "awaiting"
    THEN [id : Ids, user : BOOLEAN, channel : BOOLEAN,
          userWritable : Writables, channelWritable : Writables]
    ELSE [id : Ids, user : {TRUE}, channel : {FALSE},
          userWritable : Writables, channelWritable : Writables]

EvalOptionss(h) ==
    [source : Sources, silent : IF h = "awaiting" THEN BOOLEAN ELSE {FALSE}]

\* argv.options: absent, or a record whose debug flag is set or not
AddonOptionss == {"absent", "noDebug", "debug"}
AddonArgvs(h) ==
    [name : Names \cup {"nope"},
     options : IF h = "awaiting" THEN AddonOptionss ELSE {"debug"}]

Key(id) == <<"koishi-eval-context:", id>>
Keys == {Key(id) : id \in Ids}

\* an Error object; its message is a sequence of text parts
Error(name, message) == [isError |-> TRUE, name |-> name, message |-> message]

\* ---- pure functions ----
formatResult(v) == <<"inspect", v>>

\* A text is a sequence of lines and a line a sequence of tokens.
\* error.stack: the header line "name: message", the frame where the error was
\* raised (the script for an Error the source throws, a file of the worker
\* for the errors the worker raises), then the frames of the machinery that
\* ran the code: the sandbox's Script and the transport's MessagePort.
WorkerPath == "/srv/koishi/"
stack(error) ==
    << <<error.name, ": ">> \o error.message,
       IF error.name = "Error" THEN <<"    at ", "stdin:1:1">>
       ELSE <<"    at ", "Object.exec", " (", WorkerPath, "worker.js:1:1)">>,
       <<"    at ", "Script", ".runInContext (vm.js:1:1)">>,
       <<"    at ", "MessagePort", ".<anonymous> (", WorkerPath, "transfer.js:1:1)">> >>

\* pathMapper as start() leaves it: friendly identifier -> the path it replaces
pathMapper == [name \in {"koishi/"} |-> WorkerPath]
Markers == {"    at ", " ("}

\* /\s*.+(Script|MessagePort)[\s\S]*/: the first line that holds one of the
\* two words after at least one other character, and everything after it
Machinery == {"Script", "MessagePort"}
Matches(line) == \E p \in 2..Len(line) : line[p] \in Machinery
Cut(lines) ==
    LET hit == {k \in 1..Len(lines) : Matches(lines[k])} IN
    IF hit = {} THEN lines
    ELSE SubSeq(lines, 1, (CHOOSE k \in hit : \A m \in hit : k <= m) - 1)

\* line.replace(pathMapper[name], '$1' + name) for every name
Mapped(line) ==
    [p \in 1..Len(line) |->
        IF p > 1 /\ line[p - 1] \in Markers
              /\ \E name \in DOMAIN pathMapper : pathMapper[name] = line[p]
        THEN CHOOSE name \in DOMAIN pathMapper : pathMapper[name] = line[p]
        ELSE line[p]]

formatError(error) ==
    IF ~error.isError THEN << <<"Uncaught: ">> \o error.message >>
    ELSE LET lines == Cut(stack(error)) IN
         [k \in 1..Len(lines) |-> Mapped(lines[k])]

difference(s, t) == s \ t

\* diffKeys.join(', '); the keys are listed in alphabetical order
join(keys) ==
    IF keys = {} THEN ""
    ELSE IF keys = {"a"} THEN "a"
    ELSE IF keys = {"b"} THEN "b"
    ELSE "a, b"

Absent == [present |-> FALSE, writable |-> {}, diff |-> {}]

\* an observed record that starts with a change pending
observeStale(writable) == [present |-> TRUE, writable |-> writable, diff |-> {"b"}]

\* observe(target, update): an observed record with an empty pending diff
observe(writable) == [present |-> TRUE, writable |-> writable, diff |-> {}]

\* a Scope whose callbacks close over one fixed session id
ScopeSharedId(data) ==
    [id |-> "s1",
     user |-> IF data.user THEN observe(data.userWritable) ELSE Absent,
     channel |-> IF data.channel THEN observe(data.channelWritable) ELSE Absent]

Scope(data) ==
    [id |-> data.id,
     user |-> IF data.user THEN observe(data.userWritable) ELSE Absent,
     channel |-> IF data.channel THEN observe(data.channelWritable) ELSE Absent]

setGlobal(g, key, value, allowOverwrite) ==
    IF g[key] # 0 /\ ~allowOverwrite THEN g ELSE [g EXCEPT ![key] = value]

deleteGlobal(g, key) == [g EXCEPT ![key] = 0]

Nothing == [t |-> "nothing"]
Text(s) == [t |-> "text", text |-> s]
Thrown(e) == [t |-> "thrown", error |-> e]
Pending == [t |-> "pending"]

NoData ==
    [id |-> "none", user |-> FALSE, channel |-> FALSE,
     userWritable |-> {}, channelWritable |-> {}]

NoError == [isError |-> FALSE, name |-> "none", message |-> <<>>]

\* the errors a body can raise by itself: throw new Error('x'),
\* throw new Error('bad Script'), throw 1
ScriptErrors ==
    {Error("Error", <<"x">>), Error("Error", <<"bad ", "Script">>),
     [isError |-> FALSE, name |-> "none", message |-> <<"1">>]}

IdleCall ==
    [pc |-> "idle", kind |-> "none", id |-> "none", data |-> NoData, silent |-> FALSE,
     options |-> "absent", bound |-> 0, awaits |-> 0, got |-> <<>>,
     result |-> "undefined",
     error |-> NoError, ret |-> Pending]

NoScope == [id |-> "none", user |-> Absent, channel |-> Absent]

StatusInit ==
    /\ now = 0
    /\ timestamp = Undefined
    /\ cachedStatus = 0
    /\ promises = <<>>
    /\ returned = <<>>

Proc == 1..MaxProc

SubscribeInit ==
    /\ subscribe = <<>>
    /\ creating = [p \in Proc |-> [pc |-> "idle", _id |-> 1]]

Init ==
    /\ StatusInit
    /\ SubscribeInit
    /\ phase = "loading"
    /\ commandMap = {}
    /\ response = Undefined
    /\ cur = 0
    /\ global = [k \in Keys |-> 0]
    /\ call = [i \in Inv |-> IdleCall]
    /\ scope = [i \in Inv |-> NoScope]
    /\ hostCalls = [i \in Inv |-> <<>>]
    /\ host \in {"awaiting", "concurrent"}

\* ---- the catch blocks and the return statements of the WorkerAPI ----
EvalCatch(error) == Text(formatError(error))

\* a catch block that returns the error text whatever the debug flag
AddonCatchLeak(options, error) ==
    IF options = "absent"
    THEN Thrown(Error("TypeError", <<"Cannot read property 'debug' of undefined">>))
    ELSE Text(formatError(error))

AddonCatch(options, error) ==
    IF options = "absent"
    THEN Thrown(Error("TypeError", <<"Cannot read property 'debug' of undefined">>))
    ELSE IF options # "debug" THEN Nothing
    ELSE Text(formatError(error))

\* a return statement that ignores the silent option
EvalReturnLoud(result, silent) ==
    IF result = "undefined" THEN Nothing ELSE Text(formatResult(result))

EvalReturn(result, silent) ==
    IF result = "undefined" \/ silent THEN Nothing ELSE Text(formatResult(result))

AddonReturn(result) ==
    IF result = "undefined" THEN Nothing ELSE Text(result)

\* a catch block of callAddon that hands back the handler's result
CaughtWithResult(c, error) ==
    [c EXCEPT !.pc = "done", !.error = error, !.got = <<>>,
              !.ret = IF c.kind = "eval" THEN EvalCatch(error)
                      ELSE AddonReturn(c.result)]

\* the invocation c ends in its catch block
Caught(c, error) ==
    [c EXCEPT !.pc = "done", !.error = error, !.got = <<>>,
              !.ret = IF c.kind = "eval" THEN EvalCatch(error)
                      ELSE AddonCatch(c.options, error)]

\* the invocation c ends in its return statement
Returned(c) ==
    [c EXCEPT !.pc = "done",
              !.ret = IF c.kind = "eval" THEN EvalReturn(c.result, c.silent)
                      ELSE AddonReturn(c.result)]

\* ---- the update callbacks of an observed record, up to their await ----
\* a callback that drops the denied keys and sends the rest (fail-open)
updateUserLax(s, diff) ==
    [t |-> "call",
     msg |-> [op |-> "updateUser", id |-> s.id, arg |-> diff \cap s.user.writable]]

updateUser(s, diff) ==
    LET diffKeys == difference(diff, s.user.writable) IN
    IF diffKeys # {}
    THEN [t |-> "throw", error |-> Error("TypeError", <<"cannot set user field: ", join(diffKeys)>>)]
    ELSE [t |-> "call", msg |-> [op |-> "updateUser", id |-> s.id, arg |-> diff]]

updateGroup(s, diff) ==
    LET diffKeys == difference(diff, s.channel.writable) IN
    IF diffKeys # {}
    THEN [t |-> "throw", error |-> Error("TypeError", <<"cannot set group field: ", join(diffKeys)>>)]
    ELSE [t |-> "call", msg |-> [op |-> "updateGroup", id |-> s.id, arg |-> diff]]

\* rec._update(): the pending diff, handed to the update callback
_update(rec) == rec.diff

\* the record after a commit its callback accepted: nothing is pending
Committed(rec) == [rec EXCEPT !.diff = {}]

\* the thread is held by i (pc is a running position) or released (i awaits)
Holds(pc) == pc \in {"body", "syncUser", "syncChannel", "done"}

\* invocation i moves to the call record c
Goto(i, c) ==
    /\ call' = [call EXCEPT ![i] = c]
    /\ cur' = IF Holds(c.pc) THEN i ELSE 0

\* the RPC message for invocation i is delivered to the exposed WorkerAPI;
\* a concurrent host keeps at most two invocations in flight
Arrives(i) ==
    /\ phase = "serving"
    /\ cur = 0
    /\ call[i].pc = "idle"
    /\ i > 1 => call[i - 1].pc # "idle"
    /\ \A j \in Inv : call[j].pc \in {"idle", "closed"}
          \/ (host = "concurrent" /\ j = i - 1)

\* the ScopeData an arriving invocation i can carry; session ids are
\* interchangeable: the first invocation's is "s1"
Arriving(i) ==
    IF ~Arrives(i) THEN {}
    ELSE {d \in ScopeDatas(host) : i = 1 => d.id = "s1"}

\* ---- startup ----
registerCommand(name) ==
    /\ commandMap' = commandMap \cup {name}
    /\ UNCHANGED <<phase, response, cur, global, call, scope, hostCalls, host, others>>

start ==
    /\ phase = "loading"
    /\ response' = [commands |-> commandMap]
    /\ phase' = "serving"
    /\ UNCHANGED <<commandMap, cur, global, call, scope, hostCalls, host, others>>

\* ---- WorkerAPI.start ----
\* what start() hands to the RPC layer: the response object
Response(r) == [t |-> "response", response |-> r]

\* a start() that lists the registry as it is at the time of the call
WorkerAPI_startLive(i) ==
    /\ Arrives(i)
    /\ Goto(i, [call[i] EXCEPT !.kind = "start", !.pc = "done",
                               !.ret = Response([commands |-> commandMap])])
    /\ UNCHANGED <<phase, commandMap, response, global, scope, hostCalls, host, others>>

WorkerAPI_start(i) ==
    /\ Arrives(i)
    /\ Goto(i, [call[i] EXCEPT !.kind = "start", !.pc = "done",
                               !.ret = Response(response)])
    /\ UNCHANGED <<phase, commandMap, response, global, scope, hostCalls, host, others>>

\* ---- WorkerAPI.eval, up to the first statement of the source ----
eval(i, data, options) ==
    /\ Arrives(i)
    /\ LET key == Key(data.id)
           g == setGlobal(global, key, i, TRUE)
           c == [call[i] EXCEPT !.kind = "eval", !.id = data.id, !.data = data,
                                !.silent = options.silent]
       IN IF options.source = "syntaxError"
          THEN /\ global' = g
               /\ Goto(i, Caught(c, Error("SyntaxError", <<"Unexpected token">>)))
          ELSE /\ global' = deleteGlobal(g, key)
               /\ Goto(i, [c EXCEPT !.pc = "body", !.bound = g[key]])
    /\ scope' = [scope EXCEPT ![i] = Scope(data)]
    /\ UNCHANGED <<phase, commandMap, response, hostCalls, host, others>>

\* ---- WorkerAPI.callAddon, up to the first statement of the handler ----
callAddon(i, data, argv) ==
    /\ Arrives(i)
    /\ LET c == [call[i] EXCEPT !.kind = "addon", !.id = data.id, !.data = data,
                                !.options = argv.options]
       IN IF argv.name \notin commandMap
          THEN Goto(i, Caught(c, Error("TypeError", <<"callback is not a function">>)))
          ELSE Goto(i, [c EXCEPT !.pc = "body", !.bound = i])
    /\ scope' = [scope EXCEPT ![i] = Scope(data)]
    /\ UNCHANGED <<phase, commandMap, response, global, hostCalls, host, others>>

\* ---- the body: the statements of a script or of an addon handler ----
Running(i) == cur = i /\ call[i].pc = "body"

\* what a body can evaluate to
Results == IF host = "awaiting" THEN Values ELSE {"value"}

\* user.f = ... / channel.f = ... for the fields the body assigns, on the scope
\* the body is bound to.  No other code reads a record before sync, so the
\* assignments of a body are taken together where the body ends.
Assigned(b, us, cs) ==
    [scope EXCEPT ![b].user.diff = @ \cup us, ![b].channel.diff = @ \cup cs]

\* the sets of fields a body can assign to a record
Assignable(i, rec) ==
    IF ~Running(i) THEN {}
    ELSE IF ~scope[call[i].bound][rec].present THEN {{}}
    ELSE IF host = "awaiting" THEN SUBSET Fields
    ELSE {{}, {"a"}}

\* a send that posts under the session id of the first invocation
BodySendFirstId(i) ==
    /\ Running(i)
    /\ call[i].awaits < MaxAwait
    /\ hostCalls' = [hostCalls EXCEPT ![i] =
           Append(@, [op |-> "send", id |-> "s1", arg |-> formatResult("param")])]
    /\ Goto(i, [call[i] EXCEPT !.pc = "waitSend", !.awaits = @ + 1])
    /\ UNCHANGED <<phase, commandMap, response, global, scope, host, others>>

\* await send(...): Scope.send posts main.send and the body is suspended
BodySend(i) ==
    /\ Running(i)
    /\ call[i].awaits < MaxAwait
    /\ LET b == call[i].bound IN
       hostCalls' = [hostCalls EXCEPT ![i] =
           Append(@, [op |-> "send", id |-> scope[b].id, arg |-> formatResult("param")])]
    /\ Goto(i, [call[i] EXCEPT !.pc = "waitSend", !.awaits = @ + 1])
    /\ UNCHANGED <<phase, commandMap, response, global, scope, host, others>>

ExecTypeError == Error("TypeError", <<"The \"message\" argument must be of type string">>)

\* an exec that forwards its argument whatever its type
BodyExecUnchecked(i, message) ==
    /\ Running(i)
    /\ call[i].awaits < MaxAwait
    /\ LET b == call[i].bound IN
       hostCalls' = [hostCalls EXCEPT ![i] =
           Append(@, [op |-> "execute", id |-> scope[b].id, arg |-> message])]
    /\ Goto(i, [call[i] EXCEPT !.pc = "waitExec", !.awaits = @ + 1])
    /\ UNCHANGED <<phase, commandMap, response, global, scope, host, others>>

\* await exec(message): Scope.exec checks the type, then posts main.execute
BodyExec(i, message) ==
    /\ Running(i)
    /\ message = "string" => call[i].awaits < MaxAwait
    /\ IF message # "string"
       THEN /\ Goto(i, Caught(call[i], ExecTypeError))
            /\ UNCHANGED hostCalls
       ELSE /\ LET b == call[i].bound IN
               hostCalls' = [hostCalls EXCEPT ![i] =
                   Append(@, [op |-> "execute", id |-> scope[b].id, arg |-> message])]
            /\ Goto(i, [call[i] EXCEPT !.pc = "waitExec", !.awaits = @ + 1])
    /\ UNCHANGED <<phase, commandMap, response, global, scope, host, others>>

\* what the host answers to a send or execute call: the message id or the
\* result text that belongs to that call
HostResult(msg) == <<"result of ", msg.op, msg.id, msg.arg>>

\* main.send / main.execute settle, send / exec return what the host answered
\* and the body resumes (when the host call failed, the resumed body raises:
\* BodyRaise)
ReplyBody(i) ==
    /\ cur = 0
    /\ call[i].pc \in {"waitSend", "waitExec"}
    /\ Goto(i, [call[i] EXCEPT !.pc = "body",
                               !.got = HostResult(hostCalls[i][Len(hostCalls[i])])])
    /\ UNCHANGED <<phase, commandMap, response, global, scope, hostCalls, host, others>>

\* a raising body whose pending user changes are flushed before the catch block
BodyRaiseFlushed(i, us, cs, error) ==
    /\ Running(i)
    /\ scope' = Assigned(call[i].bound, us, cs)
    /\ Goto(i, Caught(call[i], error))
    /\ hostCalls' = [hostCalls EXCEPT ![i] =
           IF scope[i].user.present
           THEN Append(@, [op |-> "updateUser", id |-> scope[i].id, arg |-> us])
           ELSE @]
    /\ UNCHANGED <<phase, commandMap, response, global, host, others>>

\* the body throws: the catch block runs, sync does not
BodyRaise(i, us, cs, error) ==
    /\ Running(i)
    /\ scope' = Assigned(call[i].bound, us, cs)
    /\ Goto(i, Caught(call[i], error))
    /\ UNCHANGED <<phase, commandMap, response, global, hostCalls, host, others>>

\* the body completes with a value: this.sync(scope) is called
BodyReturn(i, us, cs, v) ==
    /\ Running(i)
    /\ scope' = Assigned(call[i].bound, us, cs)
    /\ Goto(i, [call[i] EXCEPT !.pc = "syncUser", !.result = v, !.got = <<>>])
    /\ UNCHANGED <<phase, commandMap, response, global, hostCalls, host, others>>

\* ---- WorkerAPI.sync ----
\* a sync that issues the user commit and goes on without awaiting it
SyncUserUnawaited(i) ==
    /\ cur = i
    /\ call[i].pc = "syncUser"
    /\ Goto(i, [call[i] EXCEPT !.pc = "syncChannel"])
    /\ IF ~scope[i].user.present
       THEN UNCHANGED <<scope, hostCalls>>
       ELSE /\ scope' = [scope EXCEPT ![i].user = Committed(@)]
            /\ hostCalls' = [hostCalls EXCEPT ![i] =
                   Append(@, [op |-> "updateUser", id |-> scope[i].id,
                              arg |-> _update(scope[i].user)])]
    /\ UNCHANGED <<phase, commandMap, response, global, host, others>>

\* first statement: await scope.user?._update()
SyncUser(i) ==
    /\ cur = i
    /\ call[i].pc = "syncUser"
    /\ IF ~scope[i].user.present
       THEN /\ Goto(i, [call[i] EXCEPT !.pc = "syncChannel"])
            /\ UNCHANGED <<scope, hostCalls>>
       ELSE LET r == updateUser(scope[i], _update(scope[i].user)) IN
            IF r.t = "throw"
            THEN /\ Goto(i, Caught(call[i], r.error))
                 /\ UNCHANGED <<scope, hostCalls>>
            ELSE /\ Goto(i, [call[i] EXCEPT !.pc = "waitUser"])
                 /\ scope' = [scope EXCEPT ![i].user = Committed(@)]
                 /\ hostCalls' = [hostCalls EXCEPT ![i] = Append(@, r.msg)]
    /\ UNCHANGED <<phase, commandMap, response, global, host, others>>

\* main.updateUser settles: sync goes on with the channel, or raises
ReplyUpdateUser(i, ok) ==
    /\ cur = 0
    /\ call[i].pc = "waitUser"
    /\ IF ok THEN Goto(i, [call[i] EXCEPT !.pc = "syncChannel"])
       ELSE Goto(i, Caught(call[i], Error("RemoteError", <<"updateUser">>)))
    /\ UNCHANGED <<phase, commandMap, response, global, scope, hostCalls, host, others>>

\* second statement: await scope.channel?._update()
SyncChannel(i) ==
    /\ cur = i
    /\ call[i].pc = "syncChannel"
    /\ IF ~scope[i].channel.present
       THEN /\ Goto(i, Returned(call[i]))
            /\ UNCHANGED <<scope, hostCalls>>
       ELSE LET r == updateGroup(scope[i], _update(scope[i].channel)) IN
            IF r.t = "throw"
            THEN /\ Goto(i, Caught(call[i], r.error))
                 /\ UNCHANGED <<scope, hostCalls>>
            ELSE /\ Goto(i, [call[i] EXCEPT !.pc = "waitGroup"])
                 /\ scope' = [scope EXCEPT ![i].channel = Committed(@)]
                 /\ hostCalls' = [hostCalls EXCEPT ![i] = Append(@, r.msg)]
    /\ UNCHANGED <<phase, commandMap, response, global, host, others>>

\* main.updateGroup settles: sync is over, or raises
ReplyUpdateGroup(i, ok) ==
    /\ cur = 0
    /\ call[i].pc = "waitGroup"
    /\ IF ok THEN Goto(i, Returned(call[i]))
       ELSE Goto(i, Caught(call[i], Error("RemoteError", <<"updateGroup">>)))
    /\ UNCHANGED <<phase, commandMap, response, global, scope, hostCalls, host, others>>

\* the RPC layer posts the outcome to the host; the invocation's locals become
\* garbage.  (A handle left in the global table still refers to the Scope, but
\* no code reads it: the next eval for that key overwrites it.)
Respond(i) ==
    /\ cur = i
    /\ call[i].pc = "done"
    /\ call' = [call EXCEPT ![i] = [IdleCall EXCEPT !.pc = "closed"]]
    /\ scope' = [scope EXCEPT ![i] = NoScope]
    /\ hostCalls' = [hostCalls EXCEPT ![i] = <<>>]
    /\ cur' = 0
    /\ UNCHANGED <<phase, commandMap, response, global, host, others>>

Next ==
    \/ \E n \in Names : registerCommand(n)
    \/ start
    \/ \E i \in Inv : WorkerAPI_start(i)
    \/ \E i \in Inv : \E data \in Arriving(i), options \in EvalOptionss(host) :
          eval(i, data, options)
    \/ \E i \in Inv : \E data \in Arriving(i), argv \in AddonArgvs(host) :
          callAddon(i, data, argv)
    \/ \E i \in Inv : BodySend(i)
    \/ \E i \in Inv, m \in Messages : BodyExec(i, m)
    \/ \E i \in Inv : ReplyBody(i)
    \/ \E i \in Inv : \E us \in Assignable(i, "user"), cs \in Assignable(i, "channel"),
                        e \in ScriptErrors : BodyRaise(i, us, cs, e)
    \/ \E i \in Inv : \E us \in Assignable(i, "user"), cs \in Assignable(i, "channel"),
                        v \in Results : BodyReturn(i, us, cs, v)
    \/ \E i \in Inv : SyncUser(i)
    \/ \E i \in Inv, ok \in BOOLEAN : ReplyUpdateUser(i, ok)
    \/ \E i \in Inv : SyncChannel(i)
    \/ \E i \in Inv, ok \in BOOLEAN : ReplyUpdateGroup(i, ok)
    \/ \E i \in Inv : Respond(i)

Spec == Init /\ [][Next]_vars

\* ======================= plugin-status: getStatus =======================
Number(n) == [t |-> "number", v |-> n]

\* now - timestamp < refresh; with timestamp undefined the difference is NaN
\* and the comparison is false
InWindow == timestamp # Undefined /\ now - timestamp.v < refresh

\* _getStatus(): an async function, its promise is pending when it returns
_getStatus == [started |-> now, state |-> "pending"]

\* what a call hands to its caller: the promise, and the state it is in then
Handed(p, ps) == [at |-> now, promise |-> p, state |-> ps[p].state]

\* a getStatus that computes again when the cached promise has been rejected
getStatusRetry ==
    /\ Len(returned) < MaxCalls
    /\ IF InWindow /\ promises[cachedStatus].state # "rejected"
       THEN /\ returned' = Append(returned, Handed(cachedStatus, promises))
            /\ UNCHANGED <<timestamp, cachedStatus, promises>>
       ELSE /\ timestamp' = Number(now)
            /\ promises' = Append(promises, _getStatus)
            /\ cachedStatus' = Len(promises')
            /\ returned' = Append(returned, Handed(cachedStatus', promises'))
    /\ UNCHANGED <<now, workerVars, subscribeVars>>

getStatus ==
    /\ Len(returned) < MaxCalls
    /\ IF InWindow
       THEN /\ returned' = Append(returned, Handed(cachedStatus, promises))
            /\ UNCHANGED <<timestamp, cachedStatus, promises>>
       ELSE /\ timestamp' = Number(now)
            /\ promises' = Append(promises, _getStatus)
            /\ cachedStatus' = Len(promises')
            /\ returned' = Append(returned, Handed(cachedStatus', promises'))
    /\ UNCHANGED <<now, workerVars, subscribeVars>>

\* the computation behind promise p ends: it fulfils, or one of its awaits
\* (database, bot.getStatus, a callback) rejects
Settle(p, ok) ==
    /\ promises[p].state = "pending"
    /\ promises' = [promises EXCEPT ![p].state = IF ok THEN "fulfilled" ELSE "rejected"]
    /\ UNCHANGED <<now, timestamp, cachedStatus, returned, workerVars, subscribeVars>>

\* the clock advances
Tick ==
    /\ now < MaxNow
    /\ now' = now + 1
    /\ UNCHANGED <<timestamp, cachedStatus, promises, returned, workerVars, subscribeVars>>

InitStatus == Init /\ host = "awaiting"

NextStatus ==
    \/ getStatus
    \/ \E p \in DOMAIN promises, ok \in BOOLEAN : Settle(p, ok)
    \/ Tick

SpecStatus == InitStatus /\ [][NextStatus]_vars

\* ======================= plugin-monitor: createSubscribe =======================
\* the _id values of the documents in the collection
StoredIds == {subscribe[k]._id : k \in DOMAIN subscribe}

\* find().sort('_id', -1).limit(1): the largest _id, 0 standing for no document
Latest == IF StoredIds = {} THEN 0 ELSE CHOOSE n \in StoredIds : \A m \in StoredIds : m <= n

\* createSubscribe up to its second await: _id is 1, or latest._id + 1
createSubscribe(p) ==
    /\ creating[p].pc = "idle"
    /\ creating' = [creating EXCEPT ![p] =
           [pc |-> "found", _id |-> IF Latest = 0 THEN 1 ELSE Latest + 1]]
    /\ UNCHANGED <<subscribe, workerVars, statusVars>>

\* an insertOne on a collection without the unique index on _id
insertOneNoIndex(p) ==
    /\ creating[p].pc = "found"
    /\ subscribe' = Append(subscribe, [_id |-> creating[p]._id, id |-> creating[p]._id])
    /\ creating' = [creating EXCEPT ![p].pc = "created"]
    /\ UNCHANGED <<workerVars, statusVars>>

\* insertOne({ _id, id: _id, ...options }): the server rejects a document
\* whose _id is already in the collection and createSubscribe rejects with it
insertOne(p) ==
    /\ creating[p].pc = "found"
    /\ IF creating[p]._id \in StoredIds
       THEN /\ creating' = [creating EXCEPT ![p].pc = "failed"]
            /\ UNCHANGED subscribe
       ELSE /\ subscribe' = Append(subscribe,
                   [_id |-> creating[p]._id, id |-> creating[p]._id])
            /\ creating' = [creating EXCEPT ![p].pc = "created"]
    /\ UNCHANGED <<workerVars, statusVars>>

\* removeSubscribe(name): the documents listed under that name (here: the
\* k-th one) are deleted
removeSubscribe(k) ==
    /\ k \in DOMAIN subscribe
    /\ subscribe' = [m \in 1..(Len(subscribe) - 1) |->
                        IF m < k THEN subscribe[m] ELSE subscribe[m + 1]]
    /\ UNCHANGED <<creating, workerVars, statusVars>>

InitSubscribe == Init /\ host = "awaiting"

NextSubscribe ==
    \/ \E p \in Proc : createSubscribe(p)
    \/ \E p \in Proc : insertOne(p)
    \/ \E k \in 1..MaxProc : removeSubscribe(k)

SpecSubscribe == InitSubscribe /\ [][NextSubscribe]_vars

\* ======================= properties =======================
BodyPcs == {"body", "waitSend", "waitExec"}
SyncPcs == {"syncUser", "waitUser", "syncChannel", "waitGroup"}
InFlight(i) == call[i].pc \notin {"idle", "closed"}

\* the positions in hostCalls[i] of the calls of operation op
HostOps(i, op) == {k \in 1..Len(hostCalls[i]) : hostCalls[i][k].op = op}
Commits(i) == HostOps(i, "updateUser") \cup HostOps(i, "updateGroup")

RaisedInBody(c) == c.error \in ScriptErrors \cup {ExecTypeError}

DeniedError(e, prefix) ==
    e.isError /\ e.name = "TypeError" /\ Len(e.message) = 2 /\ e.message[1] = prefix

\* the commit step of one record of invocation i: taken from position pc, it
\* sends exactly the pending diff under the session id when every key is
\* allowed, and raises without a host call otherwise
CommitStep(i, pc, rec, op, prefix) ==
    (call[i].pc = pc /\ scope[i][rec].present /\ call'[i].pc # pc) =>
        IF scope[i][rec].diff \subseteq scope[i][rec].writable
        THEN hostCalls'[i] = Append(hostCalls[i],
                 [op |-> op, id |-> call[i].id, arg |-> scope[i][rec].diff])
        ELSE /\ hostCalls'[i] = hostCalls[i]
             /\ call'[i].pc = "done"
             /\ DeniedError(call'[i].error, prefix)
             /\ call'[i].error.message[2] = join(scope[i][rec].diff \ scope[i][rec].writable)

\* a host update call is only ever added by the commit step of its record
OnlyByCommit(i, pc, op) ==
    (Len(hostCalls'[i]) > Len(hostCalls[i]) /\ hostCalls'[i][Len(hostCalls'[i])].op = op)
        => call[i].pc = pc

C1_Step ==
    \A i \in Inv :
        /\ CommitStep(i, "syncUser", "user", "updateUser", "cannot set user field: ")
        /\ CommitStep(i, "syncChannel", "channel", "updateGroup", "cannot set group field: ")
        /\ OnlyByCommit(i, "syncUser", "updateUser")
        /\ OnlyByCommit(i, "syncChannel", "updateGroup")

C1_Once ==
    \A i \in Inv : /\ Cardinality(HostOps(i, "updateUser")) <= 1
                   /\ Cardinality(HostOps(i, "updateGroup")) <= 1

\* C1: a commit whose diff keys are all in the record's allow-list calls the
\* host update operation exactly once, with the scope's session id and exactly
\* that diff; a commit with a key outside the allow-list (mixed or not) raises
\* and makes no host call.
C1_Commit == []C1_Once /\ [][C1_Step]_vars

\* C1 witness: the user record was committed with an allowed diff, then the
\* commit of the channel was denied for a diff mixing allowed and denied keys.
C1_Witness ==
    \E i \in Inv :
        /\ call[i].pc = "done"
        /\ \E k \in HostOps(i, "updateUser") : hostCalls[i][k].arg = {"a"}
        /\ DeniedError(call[i].error, "cannot set group field: ")
        /\ scope[i].channel.diff = {"a", "b"}
        /\ HostOps(i, "updateGroup") = {}

\* C2 (as claimed): whenever eval returns a formatted error string because the
\* script raised or a commit was denied during the following sync, neither
\* updateUser nor updateGroup has been called for that invocation.
C2_NoPartialCommit ==
    \A i \in Inv :
        (call[i].kind = "eval" /\ call[i].pc = "done"
            /\ call[i].ret = Text(formatError(call[i].error))
            /\ (RaisedInBody(call[i]) \/ call[i].error.name = "SyntaxError"
                    \/ DeniedError(call[i].error, "cannot set user field: ")
                    \/ DeniedError(call[i].error, "cannot set group field: ")))
            => Commits(i) = {}

UserCommitFailed(c) ==
    \/ DeniedError(c.error, "cannot set user field: ")
    \/ c.error = Error("RemoteError", <<"updateUser">>)

ChannelAttempted(i) ==
    \/ HostOps(i, "updateGroup") # {}
    \/ DeniedError(call[i].error, "cannot set group field: ")

\* C3 (as claimed): when the commit of scope.user fails, the commit of
\* scope.channel, if present, is still attempted before sync finishes.
C3_BothAttempted ==
    \A i \in Inv :
        (call[i].pc = "done" /\ UserCommitFailed(call[i]) /\ scope[i].channel.present)
            => ChannelAttempted(i)

\* C4 (as claimed): the records of an invocation are flushed at most once and
\* never before or during its body, and while the flush of a completed body is
\* under way no further Scope for the same session id has been constructed.
C4_FlushOnce ==
    \A i \in Inv :
        /\ call[i].pc \in BodyPcs => Commits(i) = {}
        /\ Cardinality(HostOps(i, "updateUser")) <= 1
        /\ Cardinality(HostOps(i, "updateGroup")) <= 1
        /\ call[i].pc \in SyncPcs =>
               \A j \in Inv : (j > i /\ call[j].id = call[i].id) => call[j].pc = "idle"

\* C5 (as claimed): eval and callAddon end with a formatted string or with no
\* value, never with an exception.
C5_NoThrow == \A i \in Inv : call[i].ret.t # "thrown"

\* C6 (as claimed): while user statements run, and after the eval invocation
\* has ended, no handle of that invocation is in the global table.
C6_SingleUse ==
    \A i \in Inv : call[i].pc # "idle" => \A k \in Keys : global[k] # i

\* C7: every executed script body is bound to the Scope built from its own
\* ScopeData, and every host call it triggers carries its own session id,
\* under every interleaving of the invocations.
C7_OwnScope ==
    \A i \in Inv :
        call[i].kind = "eval" =>
            /\ call[i].bound \in {0, i}
            /\ call[i].pc \in BodyPcs \cup SyncPcs => call[i].bound = i
            /\ \A k \in 1..Len(hostCalls[i]) : hostCalls[i][k].id = call[i].id

\* C7 witness: two eval invocations for different sessions are in flight, one
\* suspended on a host call of its body while the other one commits.
C7_Witness ==
    \E i, j \in Inv :
        /\ call[i].kind = "eval" /\ call[j].kind = "eval"
        /\ call[i].id # call[j].id
        /\ call[i].pc \in {"waitSend", "waitExec"}
        /\ call[j].pc = "waitUser"
        /\ HostOps(j, "send") # {}

\* C8 (as claimed): at most one script body is in progress at any instant; a
\* body suspended on an awaited send or exec still holds the slot.
C8_OneBody == Cardinality({i \in Inv : call[i].pc \in BodyPcs}) <= 1

\* C9 (as claimed): invocations that share a session id never overlap, and the
\* later one has no effect on the host before the earlier one has ended.
C9_SessionSerial ==
    \A i, j \in Inv :
        (i < j /\ call[i].id = call[j].id /\ InFlight(j)) =>
            /\ ~InFlight(i)
            /\ hostCalls[j] # <<>> => call[i].pc = "closed"

\* C10: when the handler raises, callAddon returns nothing if
\* argv.options.debug is unset and the formatted error text if it is set.
C10_AddonError ==
    \A i \in Inv :
        (call[i].kind = "addon" /\ call[i].pc = "done" /\ RaisedInBody(call[i])
            /\ call[i].options # "absent")
            => IF call[i].options = "debug"
               THEN call[i].ret = Text(formatError(call[i].error))
               ELSE call[i].ret = Nothing

\* C10 witness: a handler raised an Error with debug unset and the caller got
\* nothing.
C10_Witness ==
    \E i \in Inv :
        /\ call[i].kind = "addon" /\ call[i].pc = "done"
        /\ call[i].error = Error("Error", <<"x">>)
        /\ call[i].options = "noDebug"
        /\ call[i].ret = Nothing

UnknownAddon == Error("TypeError", <<"callback is not a function">>)

\* C11 (as claimed): callAddon with a name that is not in the registry invokes
\* no handler, performs no sync, and ends with an outcome that differs from
\* the one of a successful addon call that returned nothing (Nothing).
C11_Rejected ==
    \A i \in Inv :
        (call[i].kind = "addon" /\ call[i].pc = "done" /\ call[i].error = UnknownAddon)
            => /\ call[i].bound = 0
               /\ Commits(i) = {}
               /\ call[i].ret # Nothing

\* C12 (as claimed): once start-up has populated response.commands, the names
\* callAddon can dispatch to are exactly the list returned by start().
C12_Frozen == phase = "serving" => commandMap = response.commands

StartReply(i) == call[i].kind = "start" /\ call[i].pc = "done"

C13_Step ==
    /\ phase = "serving" => response' = response
    /\ \A i \in Inv :
          (call[i].kind # "start" /\ call'[i].kind = "start")
              => UNCHANGED <<phase, commandMap, response, global, scope, hostCalls>>

\* C13: every start() call made after start-up returns the list that start-up
\* put into response.commands, whatever was interleaved (late registrations
\* and other invocations included), and the call changes no worker state.
C13_Idempotent ==
    /\ [](\A i \in Inv : StartReply(i) => call[i].ret = Response(response))
    /\ [][C13_Step]_vars

\* C13 witness: start() answers while another invocation is suspended and
\* after a registration that came later than start-up.
C13_Witness ==
    \E i, j \in Inv :
        /\ StartReply(i)
        /\ call[j].pc \in {"waitSend", "waitExec", "waitUser", "waitGroup"}
        /\ commandMap # response.commands

\* an absent record is passed over: no host call, no error
Skipped(i, next) ==
    /\ call'[i].pc = next
    /\ hostCalls'[i] = hostCalls[i]
    /\ call'[i].error = NoError

C14_Step ==
    \A i \in Inv :
        /\ (call[i].pc = "syncUser" /\ call'[i].pc # "syncUser") =>
               IF scope[i].user.present THEN call'[i].pc \in {"waitUser", "done"}
               ELSE Skipped(i, "syncChannel")
        /\ (call[i].pc = "syncChannel" /\ call'[i].pc # "syncChannel"
                /\ ~scope[i].channel.present) => Skipped(i, "done")
        /\ (call[i].pc # "syncChannel" /\ call'[i].pc = "syncChannel") =>
               \/ call[i].pc = "waitUser"
               \/ call[i].pc = "syncUser" /\ ~scope[i].user.present
        /\ OnlyByCommit(i, "syncChannel", "updateGroup")

C14_State ==
    \A i \in Inv :
        /\ call[i].pc \in {"syncUser", "waitUser"} => HostOps(i, "updateGroup") = {}
        /\ \A u \in HostOps(i, "updateUser"), g \in HostOps(i, "updateGroup") : u < g

\* C14: sync issues updateUser for scope.user and awaits its completion before
\* updateGroup for scope.channel is issued; an absent record is skipped
\* without error.
C14_Order == []C14_State /\ [][C14_Step]_vars

\* C14 witness: both records were committed, the user record first, and the
\* channel commit is awaited.
C14_Witness ==
    \E i \in Inv :
        /\ call[i].pc = "waitGroup"
        /\ HostOps(i, "updateUser") # {}
        /\ HostOps(i, "updateGroup") # {}

\* the script and the sync that follows it both succeeded
EvalSucceeded(i) ==
    call[i].kind = "eval" /\ call[i].pc = "done" /\ call[i].error = NoError

\* C15: when the script and the following sync both succeed, eval returns
\* nothing if the evaluated value is undefined or silent is set, and the
\* formatted value otherwise.
C15_Return ==
    \A i \in Inv :
        EvalSucceeded(i) =>
            /\ (call[i].result = "undefined" \/ call[i].silent) => call[i].ret = Nothing
            /\ (call[i].result # "undefined" /\ ~call[i].silent)
                   => call[i].ret = Text(<<"inspect", call[i].result>>)

\* C15 witness: a silent eval whose script produced a value and whose sync
\* committed a record returns nothing.
C15_Witness ==
    \E i \in Inv :
        /\ EvalSucceeded(i)
        /\ call[i].silent /\ call[i].result = "value"
        /\ Commits(i) # {}
        /\ call[i].ret = Nothing

\* the invocations before j have all ended: j was issued after their outcome
Sequential(j) == \A i \in Inv : i < j => call[i].pc = "closed"

\* the Scope that eval / callAddon build from the ScopeData d alone
FreshScope(d) ==
    [id |-> d.id,
     user |-> [present |-> d.user, diff |-> {},
               writable |-> IF d.user THEN d.userWritable ELSE {}],
     channel |-> [present |-> d.channel, diff |-> {},
                  writable |-> IF d.channel THEN d.channelWritable ELSE {}]]

C16_Step ==
    \A j \in Inv :
        (call[j].pc = "idle" /\ call'[j].kind \in {"eval", "addon"}) =>
            /\ scope'[j] = FreshScope(call'[j].data)
            /\ \A i \in Inv \ {j} : scope'[i] = scope[i]

C16_State ==
    \A j \in Inv :
        (Sequential(j) /\ call[j].pc \in BodyPcs \cup SyncPcs) =>
            /\ call[j].bound = j
            /\ scope[j].id = call[j].data.id
            /\ scope[j].user.present = call[j].data.user
            /\ scope[j].channel.present = call[j].data.channel
            /\ call[j].pc \in BodyPcs =>
                   scope[j].user.diff = {} /\ scope[j].channel.diff = {}

Contains(text, message) ==
    \E k \in 1..Len(text) : \E p \in 0..(Len(text[k]) - Len(message)) :
        SubSeq(text[k], p + 1, p + Len(message)) = message

\* C17 (as claimed): for every message x, eval of a source that throws
\* Error(x) returns a text that begins with the error indicator, contains x,
\* and holds neither a frame of the execution / transport machinery nor, after
\* a call-frame marker, a registered internal path.
C17_ErrorText ==
    \A i \in Inv :
        (call[i].kind = "eval" /\ call[i].pc = "done"
            /\ call[i].error \in ScriptErrors /\ call[i].error.isError) =>
            /\ call[i].ret.t = "text"
            /\ LET text == call[i].ret.text IN
               /\ text # <<>> /\ text[1][1] = "Error"
               /\ Contains(text, call[i].error.message)
               /\ \A k \in 2..Len(text) : \A p \in 1..Len(text[k]) :
                      /\ text[k][p] \notin Machinery
                      /\ (p > 1 /\ text[k][p - 1] \in Markers) => text[k][p] # WorkerPath

C18_State ==
    \A i \in Inv :
        /\ \A k \in HostOps(i, "execute") :
              hostCalls[i][k].arg = "string" /\ hostCalls[i][k].id = call[i].id
        /\ Cardinality(HostOps(i, "execute") \cup HostOps(i, "send")) = call[i].awaits

C18_Step ==
    \A i \in Inv :
        /\ (call[i].error # ExecTypeError /\ call'[i].error = ExecTypeError)
              => hostCalls'[i] = hostCalls[i] /\ call[i].pc = "body"
        /\ (call[i].pc # "waitExec" /\ call'[i].pc = "waitExec") =>
              hostCalls'[i] = Append(hostCalls[i],
                  [op |-> "execute", id |-> call[i].id, arg |-> "string"])
        /\ (call[i].pc = "waitExec" /\ call'[i].pc # "waitExec") =>
              /\ hostCalls'[i] = hostCalls[i]
              /\ call'[i].got = <<"result of ", "execute", call[i].id, "string">>

\* C18: Scope.exec raises a type error and makes no host call when its
\* argument is not a string; for a string it calls execute exactly once, with
\* the scope's session id and that command, and returns what the host answers.
C18_Exec == []C18_State /\ [][C18_Step]_vars

\* C18 witness: after an exec that was forwarded and answered, a second exec
\* with a non-string argument raised the type error; the host saw one call.
C18_Witness ==
    \E i \in Inv :
        /\ call[i].pc = "done"
        /\ call[i].error = ExecTypeError
        /\ Cardinality(HostOps(i, "execute")) = 1

\* C19: when an addon handler raises, callAddon performs no sync: no
\* updateUser and no updateGroup call is made for that invocation, whatever
\* the handler assigned before raising and whatever the debug flag.
C19_NoSync ==
    \A i \in Inv :
        (call[i].kind = "addon" /\ call[i].pc = "done" /\ RaisedInBody(call[i]))
            => Commits(i) = {}

\* C19 witness: a handler assigned an allowed user field, then raised.
C19_Witness ==
    \E i \in Inv :
        /\ call[i].kind = "addon" /\ call[i].pc = "done"
        /\ call[i].error = Error("Error", <<"x">>)
        /\ scope[i].user.diff = {"a"}
        /\ Commits(i) = {}

\* C20: when the handler succeeds but a commit of callAddon's sync is denied
\* and debug is unset, callAddon returns nothing and the denied record is not
\* sent to the host.
C20_SilentDenial ==
    \A i \in Inv :
        (call[i].kind = "addon" /\ call[i].pc = "done" /\ call[i].options = "noDebug") =>
            /\ DeniedError(call[i].error, "cannot set user field: ") =>
                   call[i].ret = Nothing /\ HostOps(i, "updateUser") = {}
            /\ DeniedError(call[i].error, "cannot set group field: ") =>
                   call[i].ret = Nothing /\ HostOps(i, "updateGroup") = {}

\* C20 witness: a handler that returned a value and assigned a user field
\* outside the allow-list, called with debug unset, ends with nothing.
C20_Witness ==
    \E i \in Inv :
        /\ call[i].kind = "addon" /\ call[i].pc = "done"
        /\ call[i].options = "noDebug"
        /\ call[i].result = "value"
        /\ DeniedError(call[i].error, "cannot set user field: ")
        /\ call[i].ret = Nothing

\* C21: every host call made through a Scope (updateUser, updateGroup, send,
\* execute) carries the id of the ScopeData that Scope was built from, for
\* scripts and addon handlers alike and under every interleaving.
C21_ScopeId ==
    \A i \in Inv :
        call[i].kind \in {"eval", "addon"} =>
            /\ scope[i].id = call[i].data.id
            /\ \A k \in 1..Len(hostCalls[i]) :
                  /\ hostCalls[i][k].op \in {"updateUser", "updateGroup", "send", "execute"}
                  /\ hostCalls[i][k].id = call[i].data.id

\* C21 witness: while an invocation for session "s1" is suspended, an addon
\* handler running for session "s2" has sent a message and its sync has
\* committed the user record, both under "s2".
C21_Witness ==
    \E i, j \in Inv :
        /\ call[i].kind = "addon" /\ call[i].data.id = "s2"
        /\ call[j].data.id = "s1" /\ call[j].pc \in {"waitSend", "waitExec"}
        /\ HostOps(i, "send") # {}
        /\ HostOps(i, "updateUser") # {}

\* C22: getStatus starts at most one computation per refresh window: the
\* first call computes, two computations start at least `refresh` apart, and
\* a call made less than `refresh` after the last computation started is
\* handed that computation's promise, be it pending, fulfilled or rejected.
C22_OnePerWindow ==
    /\ Len(promises) <= Len(returned)
    /\ returned # <<>> =>
          returned[1].promise = 1 /\ promises[1].started = returned[1].at
    /\ \A p, q \in DOMAIN promises :
          p < q => promises[q].started - promises[p].started >= refresh
    /\ \A k \in DOMAIN returned :
          LET r == returned[k]
              earlier == {p \in DOMAIN promises : promises[p].started <= r.at}
          IN /\ r.promise \in earlier
             /\ \A p \in earlier : p <= r.promise
             /\ r.at - promises[r.promise].started < refresh

\* C22 witness: within one window the first call computed, a second call was
\* handed the pending promise and, after the computation failed, a third call
\* was handed the rejected promise; nothing was computed again.
C22_Witness ==
    /\ Len(promises) = 1
    /\ Len(returned) = 3
    /\ returned[2].state = "pending"
    /\ returned[3].state = "rejected" /\ returned[3].at > promises[1].started

\* C23: under every interleaving of createSubscribe calls (and removals), no
\* two documents of the collection share an id; a created subscription has
\* the id its call computed (latest id + 1, or 1 for an empty collection).
C23_UniqueIds ==
    /\ \A k, m \in DOMAIN subscribe :
          k # m => subscribe[k]._id # subscribe[m]._id /\ subscribe[k].id # subscribe[m].id
    /\ \A k \in DOMAIN subscribe : subscribe[k].id = subscribe[k]._id /\ subscribe[k]._id >= 1

\* C23 witness: two overlapping calls computed the same id; one created its
\* subscription, the other one was rejected, and the document is stored.
C23_Witness ==
    \E p, q \in Proc :
        /\ creating[p].pc = "created" /\ creating[q].pc = "failed"
        /\ creating[p]._id = creating[q]._id
        /\ creating[p]._id \in StoredIds

====
